---- MODULE Spec2Model ----
(***************************************************************************)
(* RhoMyosin.cpp: the layered right-hand side rhs(), the adaptive          *)
(* Bogacki-Shampine stepper and the integration loop of main().            *)
(*                                                                         *)
(* Number representation.  The program computes in double; the model       *)
(* computes on grids of integers, every product and quotient rounded       *)
(* toward zero (Trunc), which like IEEE rounding is symmetric in sign.     *)
(*   - factors (fct, kdSafety, kdShrinkMax, kdGrowMax) and the error ratio *)
(*     errMax are held in thousandths;                                     *)
(*   - times and step sizes (t, tsav, dt, dtMin, dtMax) are held in ticks; *)
(*     a step size of 0 ticks is one below the resolution of t, for which  *)
(*     t + h = t;                                                          *)
(*   - concentrations and derivatives are held in hundredths.              *)
(***************************************************************************)
EXTENDS Integers, Sequences, FiniteSets, TLC

VARIABLES
    t,        \* main: current time
    dt,       \* main: current step size (h inside the stepper)
    tsav,     \* main: next saving time
    dtMin,    \* main: smallest step size seen
    dtMax,    \* main: largest step size seen
    nOK,      \* main: accepted steps
    nStep,    \* main: loop iterations
    rows,     \* data.csv: the time column of the rows written so far
    pc,       \* main: "loop", "done" (integration complete) or "error" (catch)
    ret,      \* outcome of the latest stepper call: "none", "accept", "reject", "throw"
    hIn,      \* h on entry to the latest stepper call
    x,        \* main: state vector
    dxdt1,    \* main: derivative handed to the stepper
    xIn,      \* x on entry to the latest stepper call
    dIn,      \* dxdt1 on entry to the latest stepper call
    tIn,      \* t on entry to the latest stepper call
    bufA,     \* rhs: a derivative buffer that starts value-initialised (zeros)
    bufB,     \* rhs: a derivative buffer that starts with other contents
    rpc       \* rhs harness: "idle", "call", "ret", "ret2"

vars == <<t, dt, tsav, dtMin, dtMax, nOK, nStep, rows, pc, ret, hIn,
          x, dxdt1, xIn, dIn, tIn, bufA, bufB, rpc>>

driverVars  == <<t, dt, tsav, dtMin, dtMax, nOK, nStep, rows, pc, ret, hIn>>
stepperVars == <<x, dxdt1, xIn, dIn, tIn>>
rhsVars     == <<bufA, bufB, rpc>>

-----------------------------------------------------------------------------
(* Arithmetic *)

Abs(a) == IF a < 0 THEN -a ELSE a

Sgn(a) == IF a < 0 THEN -1 ELSE 1

\* a / b rounded toward zero; b # 0
Trunc(a, b) == Sgn(a) * Sgn(b) * (Abs(a) \div Abs(b))

\* integer cube root: the r with r^3 <= n < (r+1)^3, n >= 0
Cbrt(n) == CHOOSE r \in 0..1000 : r * r * r <= n /\ n < (r + 1) * (r + 1) * (r + 1)

-----------------------------------------------------------------------------
(* Configuration of the integration, lines 14-18 and 177-180.  The factors *)
(* are the program's, in thousandths.  The four times are a configuration  *)
(* scaled to ticks that keeps the program's order kdMinH < dt0 < dtsav <   *)
(* tEnd and lets the step size both grow past dtsav and shrink past kdMinH.*)

nvar == 46

kdShrinkMax == 100

kdGrowMax == 1200

kdSafety == 900

kdMinH == 2

dt0 == 5

dtsav == 6

tEnd == 60

\* acceptable local error, in hundredths of a concentration
tolerance == 1

\* the counters nOK and nStep are held modulo this value
MaxCount == 3

\* error ratios errMax (thousandths) the stage derivatives can give: zero, low
\* enough for fct > kdGrowMax, exactly 1, above 1, and high enough for
\* fct < kdShrinkMax
ErrMaxSet == {0, 125, 1000, 8000, 64000000}

-----------------------------------------------------------------------------
(* enum Variables, lines 21-28: the index of each species, from 0 *)

Ca == 0
CaM == 1
CaCaM == 2
Ng == 3
NgCaM == 4
CaMKII == 5
Factin == 6
CaMKIIFactin == 7
Gactin == 8
CaMKIIGactin == 9
CaMKIIp == 10
CaN == 11
CaNact == 12
I1 == 13
I1act == 14
PP1 == 15
PP1act == 16
Cdc42GEF == 17
Cdc42GEFact == 18
Cdc42GDP == 19
Cdc42GTP == 20
GAP == 21
GAPact == 22
WASP == 23
WASPact == 24
Arp23 == 25
Arp23act == 26
SSH1 == 27
SSH1act == 28
LIMK == 29
LIMKact == 30
Cofilin == 31
Cofilinact == 32
Fnewactin == 33
B == 34
Bp == 35
RhoGEF == 36
RhoGEFact == 37
RhoGDP == 38
RhoGTP == 39
ROCK == 40
ROCKact == 41
MyoPpase == 42
MyoPpaseact == 43
MLC == 44
MLCact == 45

Species == 0..(nvar - 1)

Zero == [i \in Species |-> 0]

-----------------------------------------------------------------------------
(* Fixed-point arithmetic on hundredths *)

\* a * b
Mul(a, b) == Trunc(a * b, 100)

\* a / b, by long division so that no intermediate exceeds 32 bits; b # 0
Div(a, b) ==
    LET q == Abs(a) \div Abs(b)
        r == Abs(a) % Abs(b)
    IN  Sgn(a) * Sgn(b) * (q * 100 + (r * 100) \div Abs(b))

\* the constant n/d times a
K(n, d, a) == Trunc(n * a, d)

\* pow(a, 3.0) and pow(a, 4.0)
Pow3(a) == Mul(Mul(a, a), a)
Pow4(a) == Mul(Mul(Mul(a, a), a), a)

\* exp(1)^n in hundredths, n = 0..10
ExpInt == <<100, 272, 739, 2009, 5460, 14841, 40343, 109663, 298096, 810308, 2202647>>

\* exp(y) for y >= 0; from y = 11 on the value is held at exp(11), which
\* is already too large for vmb to differ from 0 on the grid
ExpPos(y) ==
    IF y >= 1100 THEN 5987414
    ELSE LET f == y % 100
             frac == 100 + f + (f * f) \div 200 + (f * f * f) \div 60000
         IN  Trunc(ExpInt[(y \div 100) + 1] * frac, 100)

\* exp(y)
Exp(y) == IF y >= 0 THEN ExpPos(y) ELSE Div(100, ExpPos(-y))

-----------------------------------------------------------------------------
(* rhsCaMKII, lines 36-70 *)

CaMKIIv1(xv) == K(775, 100, Pow3(xv[Ca])) - xv[CaCaM]
CaMKIIv2(xv) == 5 * Mul(xv[Ng], xv[CaM]) - xv[NgCaM]
CaMKIIv3(xv) == Mul(xv[CaMKII], xv[Factin]) - 4 * xv[CaMKIIFactin]
CaMKIIv4(xv) == Mul(xv[CaMKII], xv[Gactin]) - 4 * xv[CaMKIIGactin]
CaMKIIv5(xv) == Div(120 * Mul(Pow4(xv[CaCaM]), xv[CaMKII]), Pow4(400) + Pow4(xv[CaCaM]))
               + Div(Mul(xv[CaMKIIp], xv[CaMKII]), 1000 + xv[CaMKII])
CaMKIIv6(xv) == Div(15 * Mul(xv[PP1act], xv[CaMKIIp]), 300 + xv[CaMKIIp])
CaMKIIv7(xv) == Div(127 * Mul(Pow4(xv[CaCaM]), xv[CaN]), Pow4(34) + Pow4(xv[CaCaM]))
CaMKIIv8(xv) == Div(K(34, 100, Mul(xv[CaMKIIp], xv[CaN])), 12700 + xv[CaN])
CaMKIIv9(xv) == Div(K(34, 1000, Mul(xv[CaNact], xv[I1])), 497 + xv[I1])
CaMKIIv10(xv) == Div(K(688, 10000, Mul(xv[CaMKIIp], xv[I1act])), 12700 + xv[I1act])
CaMKIIv11(xv) == Div(50 * Mul(xv[I1act], xv[PP1]), 8000 + xv[PP1])
                + Div(2 * Mul(xv[PP1act], xv[PP1]), 8000 + xv[PP1])
CaMKIIv12(xv) == Div(K(7166, 100000, Mul(xv[CaMKIIp], xv[PP1act])), 497 + xv[PP1act])

\* lines 52-69: the writes of the layer
CaMKIIWrites(xv, dxdt) ==
    LET v1 == CaMKIIv1(xv)   v2 == CaMKIIv2(xv)   v3 == CaMKIIv3(xv)
        v4 == CaMKIIv4(xv)   v5 == CaMKIIv5(xv)   v6 == CaMKIIv6(xv)
        v7 == CaMKIIv7(xv)   v8 == CaMKIIv8(xv)   v9 == CaMKIIv9(xv)
        v10 == CaMKIIv10(xv) v11 == CaMKIIv11(xv) v12 == CaMKIIv12(xv)
    IN  [dxdt EXCEPT
            ![Ca] = -3 * v1,
            ![CaM] = -v1 - v2,
            ![CaCaM] = v1,
            ![Ng] = -v2,
            ![NgCaM] = v2,
            ![CaMKII] = -v3 - v4 - v5 + v6,
            ![Factin] = -v3,
            ![CaMKIIFactin] = v3,
            ![Gactin] = -v4,
            ![CaMKIIGactin] = v4,
            ![CaMKIIp] = v5 - v6,
            ![CaN] = -v7 + v8,
            ![CaNact] = v7 - v8,
            ![I1] = -v9 + v10,
            ![I1act] = v9 - v10,
            ![PP1] = -v11 + v12,
            ![PP1act] = v11 - v12]

rhsCaMKII(xv, dxdt) == CaMKIIWrites(xv, dxdt)

-----------------------------------------------------------------------------
(* rhsArp23, lines 72-97 *)

Arp23v1(xv) == Div(K(1, 100, Mul(xv[CaMKIIp], xv[Cdc42GEF])), 100 + xv[Cdc42GEF])
Arp23v2(xv) == Div(K(1, 100, Mul(xv[PP1act], xv[Cdc42GEFact])), 100 + xv[Cdc42GEFact])
Arp23v3(xv) == Div(K(75, 100, Mul(xv[Cdc42GEFact], xv[Cdc42GDP])), 100 + xv[Cdc42GDP])
Arp23v4(xv) == Div(K(1, 10, Mul(xv[GAPact], xv[Cdc42GTP])), 100 + xv[Cdc42GTP])
Arp23v5(xv) == Div(K(1, 100, Mul(xv[CaMKIIp], xv[GAP])), 100 + xv[GAP])
Arp23v6(xv) == Div(K(1, 100, Mul(xv[PP1act], xv[GAPact])), 100 + xv[GAPact])
Arp23v7(xv) == K(2, 100, Mul(xv[Cdc42GTP], xv[WASP])) - K(1, 1000, xv[WASPact])
Arp23v8(xv) == K(1, 10, Mul(xv[Arp23], xv[WASPact])) - K(0, 1, xv[Arp23act])

\* lines 86-96: the writes of the layer
Arp23Writes(xv, dxdt) ==
    LET v1 == Arp23v1(xv) v2 == Arp23v2(xv) v3 == Arp23v3(xv) v4 == Arp23v4(xv)
        v5 == Arp23v5(xv) v6 == Arp23v6(xv) v7 == Arp23v7(xv) v8 == Arp23v8(xv)
    IN  [dxdt EXCEPT
            ![Cdc42GEF] = -v1 + v2,
            ![Cdc42GEFact] = v1 - v2,
            ![Cdc42GDP] = -v3 + v4,
            ![Cdc42GTP] = v3 - v4 - v7,
            ![GAP] = -v5 + v6,
            ![GAPact] = v5 - v6,
            ![WASP] = -v7,
            ![WASPact] = v7 - v8,
            ![Arp23] = -v8,
            ![Arp23act] = v8]

rhsArp23(xv, dxdt) == Arp23Writes(xv, rhsCaMKII(xv, dxdt))

-----------------------------------------------------------------------------
(* rhsCofilin, lines 99-118 *)

Cofilinv1(xv) == Div(K(34, 100, Mul(xv[CaNact], xv[SSH1])), 497 + xv[SSH1])
Cofilinv2(xv) == Div(127 * Mul(xv[CaMKIIp], xv[SSH1act]), 34 + xv[SSH1act])
Cofilinv3(xv) == Div(K(9, 10, Mul(xv[ROCKact], xv[LIMK])), 30 + xv[LIMK])
Cofilinv4(xv) == Div(K(34, 100, Mul(xv[SSH1act], xv[LIMKact])), 400 + xv[LIMKact])
Cofilinv5(xv) == Div(K(34, 100, Mul(xv[SSH1act], xv[Cofilin])), 400 + xv[Cofilin])
Cofilinv6(xv) == Div(K(34, 100, Mul(xv[LIMKact], xv[Cofilinact])), 400 + xv[Cofilinact])

\* lines 111-117: the writes of the layer
CofilinWrites(xv, dxdt) ==
    LET v1 == Cofilinv1(xv) v2 == Cofilinv2(xv) v3 == Cofilinv3(xv)
        v4 == Cofilinv4(xv) v5 == Cofilinv5(xv) v6 == Cofilinv6(xv)
    IN  [dxdt EXCEPT
            ![SSH1] = -v1 + v2,
            ![SSH1act] = v1 - v2,
            ![LIMK] = -v3 + v4,
            ![LIMKact] = v3 - v4,
            ![Cofilin] = -v5 + v6,
            ![Cofilinact] = v5 - v6]

rhsCofilin(xv, dxdt) == CofilinWrites(xv, rhsArp23(xv, dxdt))

-----------------------------------------------------------------------------
(* rhsActin, lines 120-145 *)

\* line 125: (0.1 * 0.0002 / 0.0001) * pow(Cofilinact, 4) * Factin
fsev(xv) == K(2, 10, Mul(Pow4(xv[Cofilinact]), xv[Factin]))

\* line 126
fnuc(xv) == Div(K(153, 10, Mul(Mul(xv[Arp23act], xv[Factin]), xv[Gactin])), 200 + xv[Arp23act])

\* line 129; 50.0 / 0 is +infinity in IEEE arithmetic, and 0.1 * 0 / infinity is 0
vmb(xv) ==
    IF xv[Bp] = 0 THEN 0
    ELSE Div(K(1, 10, xv[Bp]), xv[Bp] + 10 * Exp(Div(5000, xv[Bp])))

Actinv1(xv) == K(1, 1000, xv[Fnewactin])
Actinv2(xv) == fsev(xv) + K(1, 10, xv[Factin]) + K(1, 100, xv[Factin])
Actinv3(xv) == fnuc(xv)
Actinv4(xv) == 106 * (fsev(xv) + fnuc(xv)) - K(4, 100, xv[B])
Actinv5(xv) == Mul(10 - vmb(xv), xv[B]) - K(4, 100, xv[Bp])

\* lines 138-144: the writes of the layer; Factin, Gactin and Arp23act are
\* accumulated (+=) onto what the earlier layers left in the buffer
ActinWrites(xv, dxdt) ==
    LET v1 == Actinv1(xv) v2 == Actinv2(xv) v3 == Actinv3(xv)
        v4 == Actinv4(xv) v5 == Actinv5(xv)
    IN  [dxdt EXCEPT
            ![Fnewactin] = -v1,
            ![Factin] = @ + v1 - v2,
            ![Gactin] = @ + v2 - v3,
            ![Arp23act] = @ + (-v3),
            ![B] = v4,
            ![Bp] = v5]

\* rhsActin without its call of the previous layer
rhsActinNoChain(xv, dxdt) == ActinWrites(xv, dxdt)

rhsActin(xv, dxdt) == ActinWrites(xv, rhsCofilin(xv, dxdt))

-----------------------------------------------------------------------------
(* rhs, lines 147-173 *)

\* line 152: the denominator adds the enumerator RhoGEF (36), not xv[RhoGEF]
Rhov1(xv) == Div(K(1, 100, Mul(xv[CaMKIIp], xv[RhoGEF])), 100 + 100 * RhoGEF)
Rhov2(xv) == Div(K(1, 10, Mul(xv[PP1act], xv[RhoGEFact])), 100 + xv[RhoGEFact])
Rhov3(xv) == Div(K(75, 100, Mul(xv[RhoGEFact], xv[RhoGDP])), 100 + xv[RhoGDP])
Rhov4(xv) == Div(K(1, 10, Mul(xv[GAPact], xv[RhoGTP])), 100 + xv[RhoGTP])
Rhov5(xv) == K(2, 100, Mul(xv[RhoGTP], xv[ROCK])) - K(1, 1000, xv[ROCKact])
Rhov6(xv) == K(1, 100, xv[MyoPpase])
            + Div(3 * Mul(xv[MyoPpaseact], xv[MyoPpase]), 1600 + xv[MyoPpase])
Rhov7(xv) == Div(K(2357, 1000, Mul(xv[ROCKact], xv[MyoPpaseact])), 10 + xv[MyoPpaseact])
Rhov8(xv) == K(1, 100, xv[MLC])
            + Div(K(18, 10, Mul(xv[ROCKact], xv[MLC])), 247 + xv[MLC])
Rhov9(xv) == Div(1 * Mul(xv[MyoPpaseact], xv[MLCact]), 1600 + xv[MLCact])

\* RhoWrites with the sign of v8 lost in dxdt[MLC]
RhoWritesSignSlip(xv, dxdt) ==
    LET v1 == Rhov1(xv) v2 == Rhov2(xv) v3 == Rhov3(xv) v4 == Rhov4(xv)
        v5 == Rhov5(xv) v6 == Rhov6(xv) v7 == Rhov7(xv) v8 == Rhov8(xv)
        v9 == Rhov9(xv)
    IN  [dxdt EXCEPT
            ![RhoGEF] = -v1 + v2,
            ![RhoGEFact] = v1 - v2,
            ![RhoGDP] = -v3 + v4,
            ![RhoGTP] = v3 - v4 - v5,
            ![ROCK] = -v5,
            ![ROCKact] = v5,
            ![MyoPpase] = -v6 + v7,
            ![MyoPpaseact] = v6 - v7,
            ![MLC] = v8 + v9,
            ![MLCact] = v8 - v9]

\* lines 162-172: the writes of the layer
RhoWrites(xv, dxdt) ==
    LET v1 == Rhov1(xv) v2 == Rhov2(xv) v3 == Rhov3(xv) v4 == Rhov4(xv)
        v5 == Rhov5(xv) v6 == Rhov6(xv) v7 == Rhov7(xv) v8 == Rhov8(xv)
        v9 == Rhov9(xv)
    IN  [dxdt EXCEPT
            ![RhoGEF] = -v1 + v2,
            ![RhoGEFact] = v1 - v2,
            ![RhoGDP] = -v3 + v4,
            ![RhoGTP] = v3 - v4 - v5,
            ![ROCK] = -v5,
            ![ROCKact] = v5,
            ![MyoPpase] = -v6 + v7,
            ![MyoPpaseact] = v6 - v7,
            ![MLC] = -v8 + v9,
            ![MLCact] = v8 - v9]

\* rhs(t, xv, dxdt): the buffer after the call, given the buffer before it;
\* no layer reads t
rhs(xv, dxdt) == RhoWrites(xv, rhsActin(xv, dxdt))

\* lines 263-289: the initial conditions
X0 == [i \in Species |->
        CASE i = Ca -> 100 [] i = CaMKIIFactin -> 1000 [] i = CaMKIIGactin -> 1000
          [] i = CaN -> 100 [] i = CaM -> 1000 [] i = Ng -> 2000 [] i = I1 -> 180
          [] i = PP1 -> 27 [] i = WASP -> 100 [] i = Arp23 -> 100
          [] i = Cdc42GDP -> 100 [] i = Cdc42GEF -> 10 [] i = LIMK -> 200
          [] i = SSH1 -> 200 [] i = Cofilin -> 200 [] i = Bp -> 100 [] i = B -> 3000
          [] i = MyoPpaseact -> 10 [] i = RhoGEF -> 10 [] i = RhoGDP -> 100
          [] i = ROCK -> 100 [] i = MyoPpase -> 110 [] i = MLC -> 500 [] i = GAP -> 10
          [] OTHER -> 0]


\* the state the program's run is in at t = 20.0 (data.csv), to two decimals
X20 == [i \in Species |->
        CASE i = Ca -> 31 [] i = CaM -> 18 [] i = CaCaM -> 23
          [] i = Ng -> 1041 [] i = NgCaM -> 959 [] i = CaMKII -> 705
          [] i = Factin -> 162 [] i = CaMKIIFactin -> 289
          [] i = Gactin -> 562 [] i = CaMKIIGactin -> 987
          [] i = CaMKIIp -> 19 [] i = CaNact -> 100 [] i = I1 -> 163
          [] i = I1act -> 17 [] i = PP1 -> 9 [] i = PP1act -> 18
          [] i = Cdc42GEF -> 9 [] i = Cdc42GEFact -> 1 [] i = Cdc42GDP -> 98
          [] i = Cdc42GTP -> 2 [] i = GAP -> 9 [] i = GAPact -> 1
          [] i = WASP -> 100 [] i = Arp23 -> 100 [] i = SSH1 -> 200
          [] i = LIMK -> 200 [] i = Cofilin -> 199 [] i = Cofilinact -> 1
          [] i = B -> 1352 [] i = Bp -> 2411 [] i = RhoGEF -> 10
          [] i = RhoGDP -> 100 [] i = ROCK -> 100 [] i = MyoPpase -> 9
          [] i = MyoPpaseact -> 111 [] i = MLC -> 443 [] i = MLCact -> 57
          [] OTHER -> 0]

-----------------------------------------------------------------------------
(* bogackiShampineStepper, lines 182-215: the stages.  h is in ticks of    *)
(* 1/1000 time unit.  Each rhs call fills a fresh value-initialised        *)
(* std::vector<double>(nvar).                                               *)

\* lines 187-191
Stage2(xv, d1, h) ==
    rhs([i \in Species |-> xv[i] + Trunc(h * d1[i], 2000)], Zero)

\* lines 194-197
Stage3(xv, d2, h) ==
    rhs([i \in Species |-> xv[i] + Trunc(3 * h * d2[i], 4000)], Zero)

\* lines 200-203
Stage4(xv, d1, d2, d3, h) ==
    rhs([i \in Species |-> xv[i] + Trunc(h * (2 * d1[i] + 3 * d2[i] + 4 * d3[i]), 9000)], Zero)

\* line 209
Propagate(xv, d1, d2, d3, d4, h) ==
    [i \in Species |->
        xv[i] + Trunc(h * (7 * d1[i] + 6 * d2[i] + 8 * d3[i] + 3 * d4[i]), 24000)]

\* a * 1000 / b by long division, held at 1000000: every ratio from 1000
\* on gives fct < kdShrinkMax
Ratio(a, b) ==
    IF a \div b >= 1000 THEN 1000000
    ELSE (a \div b) * 1000 + ((a % b) * 1000) \div b

\* line 212, in thousandths
Erri(d1, d2, d3, d4, h, i) ==
    Ratio(Abs(h * (5 * d1[i] - 6 * d2[i] - 8 * d3[i] + 9 * d4[i])), 72000 * tolerance)

\* a local variable of the code: v is computed once and F reads the value
Local(v, F(_)) == CHOOSE r \in {F(w) : w \in {v}} : TRUE

\* lines 205-215: errMax starts at 0 and is raised to every larger erri,
\* which leaves the largest erri over the components below n
MaxErr(d1, d2, d3, d4, h, n) ==
    Local({0} \cup {Erri(d1, d2, d3, d4, h, i) : i \in 0..(n - 1)}, LAMBDA errs :
        CHOOSE errMax \in errs : \A erri \in errs : erri <= errMax)

-----------------------------------------------------------------------------
(* bogackiShampineStepper, lines 217-241: step-size control *)

\* line 218
Fct(errMax) == IF errMax > 0 THEN (kdSafety * 10) \div Cbrt(errMax) ELSE kdGrowMax

\* lines 222-225: h after a rejected step
Shrink(h, fct) == IF fct < kdShrinkMax THEN Trunc(h * kdShrinkMax, 1000)
                  ELSE Trunc(h * fct, 1000)

\* Grow without the cap
GrowNoCap(h, fct) == Trunc(h * fct, 1000)

\* lines 236-239: h after an accepted step
Grow(h, fct) == IF fct > kdGrowMax THEN Trunc(h * kdGrowMax, 1000)
                ELSE Trunc(h * fct, 1000)

\* lines 218-241 as far as t and h go: the outcome of one call that
\* computed the error ratio errMax
Control(t_, h, errMax) ==
    LET fct == Fct(errMax) IN
    IF errMax > 1000
    THEN LET h2 == Shrink(h, fct) IN
         [ret |-> IF h2 < kdMinH THEN "throw" ELSE "reject", t |-> t_, h |-> h2]
    ELSE [ret |-> "accept", t |-> t_ + h, h |-> Grow(h, fct)]

-----------------------------------------------------------------------------
(* main, lines 296-331: the integration loop *)

\* ++nOK and ++nStep
Count(n) == (n + 1) % MaxCount

\* lines 304-307
NewDtMin(h) == IF h < dtMin THEN h ELSE dtMin
NewDtMax(h) == IF h < dtMin THEN dtMax ELSE IF h > dtMax THEN h ELSE dtMax

\* lines 309-315: the row written when t has passed the saving time
NewRows(tc) == IF tc > tsav THEN Append(rows, tc) ELSE rows

\* lines 309 and 318
NewTsav(tc) == IF tc > tsav THEN tsav + dtsav ELSE tsav

\* lines 299-320, one iteration in which the stepper returns
LoopBody(c) ==
    /\ ret' = c.ret
    /\ hIn' = dt
    /\ t' = c.t
    /\ dt' = c.h
    /\ nOK' = IF c.ret = "accept" THEN Count(nOK) ELSE nOK
    /\ dtMin' = NewDtMin(c.h)
    /\ dtMax' = NewDtMax(c.h)
    /\ rows' = NewRows(c.t)
    /\ tsav' = NewTsav(c.t)
    /\ nStep' = Count(nStep)
    /\ pc' = "loop"

\* lines 226-227 and 333-337: the stepper throws, main catches and exits
LoopThrow(c) ==
    /\ ret' = c.ret
    /\ hIn' = dt
    /\ dt' = c.h
    /\ pc' = "error"
    /\ UNCHANGED <<t, nOK, dtMin, dtMax, rows, tsav, nStep>>

Iterate ==
    /\ pc = "loop"
    /\ t < tEnd
    /\ \E e \in ErrMaxSet :
         LET c == Control(t, dt, e) IN
         /\ c.ret # "throw"
         /\ LoopBody(c)
    /\ UNCHANGED <<stepperVars, rhsVars>>

Underflow ==
    /\ pc = "loop"
    /\ t < tEnd
    /\ \E e \in ErrMaxSet :
         LET c == Control(t, dt, e) IN
         /\ c.ret = "throw"
         /\ LoopThrow(c)
    /\ UNCHANGED <<stepperVars, rhsVars>>

\* lines 299 and 322-331: the loop condition fails, the report is printed
Finish ==
    /\ pc = "loop"
    /\ t >= tEnd
    /\ pc' = "done"
    /\ UNCHANGED <<t, dt, tsav, dtMin, dtMax, nOK, nStep, rows, ret, hIn>>
    /\ UNCHANGED <<stepperVars, rhsVars>>

\* lines 296-299
Init ==
    /\ t = 0 /\ tsav = 0 /\ dt = dt0
    /\ dtMin = dt0 /\ dtMax = kdMinH
    /\ nOK = 0 /\ nStep = 0
    /\ rows = <<>>
    /\ pc = "loop"
    /\ ret = "none" /\ hIn = dt0
    /\ x = Zero /\ dxdt1 = Zero /\ xIn = Zero /\ dIn = Zero /\ tIn = 0
    /\ bufA = Zero /\ bufB = Zero /\ rpc = "idle"

Next == Iterate \/ Underflow \/ Finish

Spec == Init /\ [][Next]_vars

\* the loop is sequential code: while an iteration is possible one is taken
SpecFair == Spec /\ WF_vars(Next)

-----------------------------------------------------------------------------
(* bogackiShampineStepper, lines 182-242: the whole call on (t, x, dxdt1, h) *)

\* lines 217-241 with the trial state committed before the error test
CommitEarly(xv, d1, d4, xtmp, c) ==
    [ret |-> c.ret, t |-> c.t, h |-> c.h,
     x |-> xtmp,
     dxdt1 |-> IF c.ret = "accept" THEN d4 ELSE d1]

\* lines 217-241: what the call leaves in t, x, dxdt1 and h
Commit(xv, d1, d4, xtmp, c) ==
    [ret |-> c.ret, t |-> c.t, h |-> c.h,
     x |-> IF c.ret = "accept" THEN xtmp ELSE xv,
     dxdt1 |-> IF c.ret = "accept" THEN d4 ELSE d1]

bogackiShampineStepper(t_, xv, d1, h) ==
    Local(Stage2(xv, d1, h), LAMBDA d2 :
    Local(Stage3(xv, d2, h), LAMBDA d3 :
    Local(Stage4(xv, d1, d2, d3, h), LAMBDA d4 :
    Local(Control(t_, h, MaxErr(d1, d2, d3, d4, h, nvar)), LAMBDA c :
        Commit(xv, d1, d4, Propagate(xv, d1, d2, d3, d4, h), c)))))

-----------------------------------------------------------------------------
(* main, lines 263-320, with the state vector: the loop calls the stepper  *)
(* on the model's rhs                                                      *)

\* states the stepper is run from: the program's initial conditions, the
\* same with another calcium level, and the state of the run at t = 20
StepperStates ==
    {X0, X20} \cup {[X0 EXCEPT ![Ca] = c] : c \in {50, 150}}

\* initial step sizes the stepper is run from
StepperSteps == {dt0, 2 * dt0, 4 * dt0, 8 * dt0}

\* lines 263-299
InitStepper ==
    /\ x \in StepperStates
    /\ dxdt1 = rhs(x, Zero)
    /\ t = 0 /\ dt \in StepperSteps
    /\ xIn = x /\ dIn = dxdt1 /\ tIn = 0 /\ hIn = dt
    /\ ret = "none"
    /\ pc = "loop"
    /\ tsav = 0 /\ dtMin = dt0 /\ dtMax = kdMinH /\ nOK = 0 /\ nStep = 0
    /\ rows = <<>>
    /\ bufA = Zero /\ bufB = Zero /\ rpc = "idle"

\* lines 299-320, one iteration
Call ==
    /\ pc = "loop"
    /\ t < tEnd
    /\ \E r \in {bogackiShampineStepper(t, x, dxdt1, dt)} :
       /\ xIn' = x /\ dIn' = dxdt1 /\ tIn' = t
       /\ x' = r.x /\ dxdt1' = r.dxdt1
       /\ IF r.ret = "throw" THEN LoopThrow(r) ELSE LoopBody(r)
    /\ UNCHANGED rhsVars

NextStepper == Call \/ Finish

SpecStepper == InitStepper /\ [][NextStepper]_vars

-----------------------------------------------------------------------------
(* rhs called on a value-initialised buffer and on a buffer with other     *)
(* contents, then again on the buffer that holds the first result          *)

\* every species at 1.0
X1 == [i \in Species |-> 100]

\* the largest filler of a buffer that is not value-initialised
MaxGarbage == 2

RhsInputs ==
    {[b EXCEPT ![s] = v] : b \in {X0, X1, X20}, s \in Species, v \in {0, 100, 250}}

InitRhs ==
    /\ x \in RhsInputs
    /\ bufA = Zero
    /\ bufB \in {[i \in Species |-> g * (i + 1)] : g \in 1..MaxGarbage}
    /\ rpc = "call"
    /\ dxdt1 = Zero /\ xIn = Zero /\ dIn = Zero /\ tIn = 0
    /\ t = 0 /\ tsav = 0 /\ dt = dt0 /\ dtMin = dt0 /\ dtMax = kdMinH
    /\ nOK = 0 /\ nStep = 0 /\ rows = <<>> /\ pc = "idle"
    /\ ret = "none" /\ hIn = dt0

EvalRhs ==
    /\ rpc = "call"
    /\ bufA' = rhs(x, bufA)
    /\ bufB' = rhs(x, bufB)
    /\ rpc' = "ret"
    /\ UNCHANGED <<driverVars, stepperVars>>

EvalAgain ==
    /\ rpc = "ret"
    /\ bufB' = rhs(x, bufB)
    /\ rpc' = "ret2"
    /\ UNCHANGED <<bufA, driverVars, stepperVars>>

NextRhs == EvalRhs \/ EvalAgain

SpecRhs == InitRhs /\ [][NextRhs]_vars

-----------------------------------------------------------------------------
(* Properties *)

\* the conserved pairs (A, A*) of the network
Pairs ==
    { <<Ng, NgCaM>>, <<CaN, CaNact>>, <<I1, I1act>>, <<PP1, PP1act>>,
      <<Cdc42GEF, Cdc42GEFact>>, <<GAP, GAPact>>, <<SSH1, SSH1act>>,
      <<LIMK, LIMKact>>, <<Cofilin, Cofilinact>>, <<RhoGEF, RhoGEFact>>,
      <<ROCK, ROCKact>>, <<MyoPpase, MyoPpaseact>>, <<MLC, MLCact>> }

PairSum(v, p) == v[p[1]] + v[p[2]]

\* C1: after a rejected stepper call t, every component of x and every
\* component of dxdt1 have the values they had on entry; only h was changed.
C1_RejectChangesOnlyH ==
    ret = "reject" => (t = tIn /\ x = xIn /\ dxdt1 = dIn /\ dt # hIn)

\* a rejected call whose trial state differed from x
C1_Witness ==
    /\ ret = "reject"
    /\ dt < hIn
    /\ Propagate(xIn, dIn, Stage2(xIn, dIn, hIn),
                 Stage3(xIn, Stage2(xIn, dIn, hIn), hIn),
                 Stage4(xIn, dIn, Stage2(xIn, dIn, hIn),
                        Stage3(xIn, Stage2(xIn, dIn, hIn), hIn), hIn),
                 hIn) # xIn

\* C2: whenever the loop is about to call the stepper, dxdt1 is the
\* derivative at the current state, dxdt1 = rhs(t, x).
C2_Dxdt1IsRhsOfX ==
    pc = "loop" => dxdt1 = rhs(x, Zero)

\* C3: an accepted call leaves h' <= h * kdGrowMax; a rejected call (the one
\* that throws included) leaves h' no smaller than the product h * kdShrinkMax.
C3_StepSizeCaps ==
    /\ ret = "accept" => dt * 1000 <= hIn * kdGrowMax
    /\ ret \in {"reject", "throw"} => dt >= Trunc(hIn * kdShrinkMax, 1000)

\* a rejecting call whose fct was below kdShrinkMax and that left h at the
\* cap, after accepted calls had grown h by kdGrowMax
C3_Witness ==
    /\ ret \in {"reject", "throw"}
    /\ hIn > dt0
    /\ dt = Trunc(hIn * kdShrinkMax, 1000)
    /\ dt > Trunc(hIn * Fct(64000000), 1000)

\* C4: the stepper throws exactly when the call leaves h below kdMinH, so no
\* iteration of the loop starts with h < kdMinH.
C4_UnderflowIff ==
    /\ ret # "none" => ((dt < kdMinH) <=> (ret = "throw"))
    /\ pc = "loop" => dt >= kdMinH

C6_RowsStrictlyIncrease ==
    \A i \in 1..(Len(rows) - 1) : rows[i] < rows[i + 1]

\* C7: on normal completion the number of rows differs from tEnd / dtsav
\* by at most 1.
C7_RowCountWithinOne ==
    pc = "done" => /\ (Len(rows) - 1) * dtsav <= tEnd
                   /\ (Len(rows) + 1) * dtsav >= tEnd

\* C8: rhs gives dxdt[A] + dxdt[A*] = 0 for every conserved pair, and
\* x[A] + x[A*] is after every stepper call what it was before the call and
\* what it was initially.
C8_PairsConserved ==
    \A p \in Pairs :
        /\ PairSum(dxdt1, p) = 0
        /\ PairSum(rhs(x, Zero), p) = 0
        /\ PairSum(x, p) = PairSum(xIn, p)
        /\ PairSum(x, p) = PairSum(X0, p)

\* an accepted call that moved both members of a pair
C8_Witness ==
    /\ ret = "accept"
    /\ x[Ng] # xIn[Ng]
    /\ x[NgCaM] # xIn[NgCaM]

\* C9: the buffer rhs returns does not depend on what the buffer held
\* before the call: a value-initialised buffer and a buffer with other
\* contents come back equal, and so does a second call on the same input.
C9_RhsIgnoresBuffer ==
    rpc \in {"ret", "ret2"} => bufA = bufB

\* a call in which the layers before rhsActin and rhsActin itself both
\* contribute to the three accumulated slots
C9_Witness ==
    /\ rpc = "ret2"
    /\ CaMKIIv3(x) # 0 /\ Actinv2(x) - Actinv1(x) # 0
    /\ CaMKIIv4(x) # 0 /\ Actinv2(x) - Actinv3(x) # 0
    /\ Arp23v8(x) # 0 /\ Actinv3(x) # 0

\* C10: at the end of every iteration dtMin <= dt <= dtMax.
C10_StepSizeWithinMinMax ==
    ret \in {"accept", "reject"} => (dtMin <= dt /\ dt <= dtMax)
====
